---- MODULE Spec2Model ----
(***************************************************************************)
(* Model of the AWS Config rule EMR_KERBEROS_ENABLED                       *)
(* (src/python/EMR_KERBEROS_ENABLED/EMR_KERBEROS_ENABLED.py).              *)
(*                                                                         *)
(* One invocation of lambda_handler is a run of the state machine: every   *)
(* action is one call to an external collaborator (EMR, AWS Config)        *)
(* together with the code that runs until the next call.  Python strings   *)
(* are sequences of one-character strings, Python ints are integers, and   *)
(* a value whose Python type matters is a record [type, val].  An          *)
(* operation that can raise returns [ok |-> TRUE, val] or                  *)
(* [ok |-> FALSE, exc, arg].                                               *)
(***************************************************************************)
EXTENDS Integers, Sequences, FiniteSets, TLC

(***************************************************************************)
(* Bounds of the model.                                                    *)
(***************************************************************************)
\* clusters enumerated by list_clusters over all pages
MaxClusters == 2
\* pages a paginated listing returns at most
MaxPages == 2
\* previous verdicts listed by get_compliance_details_by_config_rule
MaxOld == 2
\* longest verdict list handed to the submission loop in SpecSubmit
MaxEvals == 201
MaxHostLen == 5

(***************************************************************************)
(* Program constants.                                                      *)
(***************************************************************************)
\* len(hostname) > 255
MaxHostnameLen == 255
\* {1,63} in the label pattern
MaxLabelLen == 63
\* evaluations[:100], Limit=100
BatchSize == 100

(***************************************************************************)
(* Python values.                                                          *)
(***************************************************************************)
None == [type |-> "NoneType"]
PyStr(s) == [type |-> "str", val |-> s]
PyInt(n) == [type |-> "int", val |-> n]

Ret(v) == [ok |-> TRUE, val |-> v]
Raise(e, a) == [ok |-> FALSE, exc |-> e, arg |-> a]

UpperChars == {"A", "B", "C", "D", "E", "K", "M", "R"}
LowerChars == {"a", "b", "c", "d", "e", "k", "m", "x"}
DigitChars == {"0", "1", "2", "3", "4", "5", "6", "7", "8", "9"}

Min(a, b) == IF a < b THEN a ELSE b

\* str(n) of a Python int
RECURSIVE NatStr(_)
NatStr(n) ==
    LET d == <<"0", "1", "2", "3", "4", "5", "6", "7", "8", "9">>
    IN  IF n < 10 THEN <<d[n + 1]>> ELSE NatStr(n \div 10) \o <<d[(n % 10) + 1]>>

IntStr(n) == IF n < 0 THEN <<"-">> \o NatStr(-n) ELSE NatStr(n)

\* str(v): the identity on a str, the decimal text of an int
str(v) == IF v.type = "int" THEN IntStr(v.val) ELSE v.val

\* s.isnumeric(): at least one character and every character numeric
isnumeric(s) == Len(s) > 0 /\ \A i \in 1..Len(s) : s[i] \in DigitChars

\* s.isupper(): at least one cased character and no lower-case one
isupper(s) ==
    /\ \E i \in 1..Len(s) : s[i] \in UpperChars
    /\ \A i \in 1..Len(s) : s[i] \notin LowerChars

\* s.split(sep): always at least one piece, empty pieces kept
RECURSIVE split(_, _)
split(s, sep) ==
    IF \A i \in 1..Len(s) : s[i] # sep
    THEN <<s>>
    ELSE LET i == CHOOSE k \in 1..Len(s) :
                      s[k] = sep /\ \A j \in 1..(k - 1) : s[j] # sep
         IN  <<SubSeq(s, 1, i - 1)>> \o split(SubSeq(s, i + 1, Len(s)), sep)

(***************************************************************************)
(* is_valid_hostname                                                       *)
(***************************************************************************)
\* [A-Z\d-] under re.IGNORECASE
AllowedChar(c) == c \in UpperChars \cup LowerChars \cup DigitChars \cup {"-"}

\* allowed.match(x) for "(?!-)[A-Z\d-]{1,63}(?<!-)$": match() anchors at the
\* start, the class takes n characters, the character before the end of the
\* match is not a hyphen, and $ matches at the end of the string or just
\* before a newline that ends it.
allowed_match(x) ==
    \E n \in 1..Min(MaxLabelLen, Len(x)) :
        /\ x[1] # "-"
        /\ \A i \in 1..n : AllowedChar(x[i])
        /\ x[n] # "-"
        /\ \/ n = Len(x)
           \/ n = Len(x) - 1 /\ x[Len(x)] = "\n"

is_valid_hostname(hostname, type) ==
    IF Len(hostname) > MaxHostnameLen THEN Ret(FALSE)
    ELSE IF Len(hostname) = 0 THEN Raise("IndexError", <<>>)
    ELSE
      LET h1   == IF hostname[Len(hostname)] = "."
                  THEN SubSeq(hostname, 1, Len(hostname) - 1)
                  ELSE hostname
          fqdn == split(h1, ":")
          h2   == IF type = "FQDN" THEN fqdn[1] ELSE h1
          labels == split(h2, ".")
      IN  IF type = "FQDN" /\ Len(fqdn) > 1 /\ ~isnumeric(fqdn[2])
          THEN Ret(FALSE)
          ELSE IF Len(labels) < 2 THEN Ret(FALSE)
          ELSE Ret(\A i \in 1..Len(labels) : allowed_match(labels[i]))

(***************************************************************************)
(* evaluate_parameters                                                     *)
(***************************************************************************)
ParameterNames == {"TicketLifetimeInHours", "Realm", "Domain", "AdminServer", "KdcServer"}

Has(d, k) == k \in DOMAIN d

evaluate_parameters(rule_parameters) ==
    LET p == rule_parameters
        hv(k, t) == is_valid_hostname(p[k].val, t)
    IN  IF DOMAIN p = {} THEN Ret(p)
        ELSE IF Has(p, "TicketLifetimeInHours") /\ ~isnumeric(str(p["TicketLifetimeInHours"]))
             THEN Raise("ValueError", "TicketLifetimeInHours")
        ELSE IF Has(p, "Realm") /\ ~isupper(str(p["Realm"]))
             THEN Raise("ValueError", "Realm")
        ELSE IF Has(p, "Realm") /\ ~hv("Realm", "DOMAIN").ok
             THEN hv("Realm", "DOMAIN")
        ELSE IF Has(p, "Realm") /\ ~hv("Realm", "DOMAIN").val
             THEN Raise("ValueError", "Realm")
        ELSE IF Has(p, "Domain") /\ ~hv("Domain", "DOMAIN").ok
             THEN hv("Domain", "DOMAIN")
        ELSE IF Has(p, "Domain") /\ ~hv("Domain", "DOMAIN").val
             THEN Raise("ValueError", "Domain")
        ELSE IF Has(p, "AdminServer") /\ ~hv("AdminServer", "FQDN").ok
             THEN hv("AdminServer", "FQDN")
        ELSE IF Has(p, "AdminServer") /\ ~hv("AdminServer", "FQDN").val
             THEN Raise("ValueError", "AdminServer")
        ELSE IF Has(p, "KdcServer") /\ ~hv("KdcServer", "FQDN").ok
             THEN hv("KdcServer", "FQDN")
        ELSE IF Has(p, "KdcServer") /\ ~hv("KdcServer", "FQDN").val
             THEN Raise("ValueError", "KdcServer")
        ELSE Ret(p)

(***************************************************************************)
(* build_evaluation and the error responses                                *)
(***************************************************************************)
DEFAULT_RESOURCE_TYPE == "AWS::EMR::Cluster"

\* str(json.loads(event['invokingEvent'])['notificationCreationTime'])
NotificationCreationTime == "2019-01-01T00:00:00Z"

\* event['accountId']
AccountId == "123456789012"

\* annotation is None or a text; "if annotation:" leaves the key out for None
build_evaluation(resource_id, compliance_type, resource_type, annotation) ==
    IF annotation.type = "NoneType"
    THEN [ComplianceResourceType |-> resource_type,
          ComplianceResourceId   |-> resource_id,
          ComplianceType         |-> compliance_type,
          OrderingTimestamp      |-> NotificationCreationTime]
    ELSE [Annotation             |-> annotation.val,
          ComplianceResourceType |-> resource_type,
          ComplianceResourceId   |-> resource_id,
          ComplianceType         |-> compliance_type,
          OrderingTimestamp      |-> NotificationCreationTime]

build_error_response(internalErrorMessage, internalErrorDetails, customerErrorCode, customerErrorMessage) ==
    [internalErrorMessage |-> internalErrorMessage,
     internalErrorDetails |-> internalErrorDetails,
     customerErrorMessage |-> customerErrorMessage,
     customerErrorCode    |-> customerErrorCode]

build_internal_error_response(internalErrorMessage, internalErrorDetails) ==
    build_error_response(internalErrorMessage, internalErrorDetails,
                          <<"InternalError">>, <<"InternalError">>)

\* str(ex): the argument of a ValueError, the text botocore builds for a ClientError
str_ex(ex) ==
    IF ex.exc = "ClientError"
    THEN <<"An error occurred", ex.arg.Code, ex.arg.Message>>
    ELSE <<ex.arg>>

build_parameters_value_error_response(ex) ==
    build_error_response(<<"Customer error while parsing input parameters">>,
                         <<"Parameter value is invalid">>,
                         <<"InvalidParameterValueException">>,
                         str_ex(ex))

\* the error codes the collaborators answer with in this model
ErrorCodes == {"AccessDeniedException", "InternalError"}
CodesStartingWith5 == {"500", "503"}
CodesContainingInternalError == {"InternalError", "InternalErrorException"}
CodesContainingServiceError == {"ServiceError"}

ClientError(code) == Raise("ClientError", [Code |-> code, Message |-> "message"])

is_internal_error(exception) ==
    \/ exception.exc # "ClientError"
    \/ exception.arg.Code \in CodesStartingWith5
    \/ exception.arg.Code \in CodesContainingInternalError
    \/ exception.arg.Code \in CodesContainingServiceError

\* the except clauses of lambda_handler's second try block (lines 470-475)
except_clauses(ex) ==
    IF ex.exc = "ClientError"
    THEN IF is_internal_error(ex)
         THEN [kind |-> "return", type |-> "dict",
               val |-> build_internal_error_response(
                          <<"Unexpected error while completing API request">>, str_ex(ex))]
         ELSE [kind |-> "return", type |-> "dict",
               val |-> build_error_response(<<"Customer error while making API request">>,
                          str_ex(ex), <<ex.arg.Code>>, <<ex.arg.Message>>)]
    ELSE IF ex.exc = "ValueError"
    THEN [kind |-> "return", type |-> "dict",
          val |-> build_internal_error_response(str_ex(ex), str_ex(ex))]
    ELSE [kind |-> "raise", exc |-> ex.exc]

(***************************************************************************)
(* The decision procedure of evaluate_compliance for one cluster           *)
(***************************************************************************)
\* a variant of TerminatedStates that forgets the clusters still terminating
TerminatedStates_short == {"TERMINATED", "TERMINATED_WITH_ERRORS"}

TerminatedStates == {"TERMINATING", "TERMINATED", "TERMINATED_WITH_ERRORS"}

Text(s) == [type |-> "str", val |-> s]

\* a < b of Python for the operand types that occur: the document's value is
\* an int (json.loads of a JSON number), the parameter an int or a str
py_lt(a, b) ==
    CASE a.type = "int" /\ b.type = "int" -> Ret(a.val < b.val)
      [] a.type = "int" /\ b.type = "str" -> Raise("TypeError", "<")

\* lines 153-159: what the loop body decides from describe_cluster's answer;
\* None when the loop body goes on to fetch the security configuration
decide_described(cluster_id, described_cluster) ==
    IF described_cluster.Status.State \in TerminatedStates
    THEN build_evaluation(cluster_id, "NOT_APPLICABLE", DEFAULT_RESOURCE_TYPE, None)
    ELSE IF ~Has(described_cluster, "SecurityConfiguration")
    THEN build_evaluation(cluster_id, "NON_COMPLIANT", DEFAULT_RESOURCE_TYPE,
                          Text("No Security Configuration is attached."))
    ELSE None

KerberosEnabled(cluster_sc_details) ==
    /\ Has(cluster_sc_details, "AuthenticationConfiguration")
    /\ Has(cluster_sc_details.AuthenticationConfiguration, "KerberosConfiguration")
    /\ Has(cluster_sc_details.AuthenticationConfiguration.KerberosConfiguration,
           "ClusterDedicatedKdcConfiguration")

FieldAnnotation(f) ==
    CASE f = "Realm"  -> "Realm is not equal to the specified Rule parameter Realm."
      [] f = "Domain" -> "Domain is not equal to the specified Rule parameter Domain."
      [] f = "AdminServer" -> "AdminServer is not equal to the specified Rule parameter AdminServer."
      [] f = "KdcServer" -> "KdcServer is not equal to the specified Rule parameter KdcServer."

\* a variant of CrossRealmFields that tests Domain before Realm
CrossRealmFields_swapped == <<"Domain", "Realm", "AdminServer", "KdcServer">>

\* the order of the four ifs of lines 183-201
CrossRealmFields == <<"Realm", "Domain", "AdminServer", "KdcServer">>

\* "X" in rule_parameters and not str(sc_kerberos_details["X"]).__eq__(rule_parameters["X"])
FieldMismatch(f, cross_realm, rule_parameters) ==
    Has(rule_parameters, f) /\ ~(str(cross_realm[f]) = rule_parameters[f].val)

\* lines 165-204: what the loop body decides from the security configuration
decide_security_configuration(cluster_id, cluster_sc_details, rule_parameters) ==
    LET NC(a) == Ret(build_evaluation(cluster_id, "NON_COMPLIANT", DEFAULT_RESOURCE_TYPE, Text(a)))
    IN
    IF ~KerberosEnabled(cluster_sc_details)
    THEN NC("Kerberos Authentication is not enabled in the Security Configuration.")
    ELSE
      LET kdc == cluster_sc_details.AuthenticationConfiguration.KerberosConfiguration.ClusterDedicatedKdcConfiguration
          lt  == py_lt(kdc.TicketLifetimeInHours, rule_parameters["TicketLifetimeInHours"])
          mismatches == {i \in 1..4 : FieldMismatch(CrossRealmFields[i],
                                          kdc.CrossRealmTrustConfiguration, rule_parameters)}
          first == CHOOSE i \in mismatches : \A j \in mismatches : i <= j
      IN  IF Has(rule_parameters, "TicketLifetimeInHours") /\ ~lt.ok THEN lt
          ELSE IF Has(rule_parameters, "TicketLifetimeInHours") /\ lt.val
          THEN NC("TicketLifetimeInHours is smaller than the specified Rule parameter TicketLifetimeInHours.")
          ELSE IF ~Has(kdc, "CrossRealmTrustConfiguration")
          THEN NC("CrossRealmTrustConfiguration is not configured in security configuration.")
          ELSE IF mismatches # {} THEN NC(FieldAnnotation(CrossRealmFields[first]))
          ELSE Ret(build_evaluation(cluster_id, "COMPLIANT", DEFAULT_RESOURCE_TYPE, None))

(***************************************************************************)
(* clean_up_old_evaluations and the loops of lambda_handler                *)
(***************************************************************************)
RequiredFields == {"ComplianceResourceType", "ComplianceResourceId", "ComplianceType", "OrderingTimestamp"}

\* lines 486-494: the verdicts that have every required field, in order
RECURSIVE filter_missing_fields(_)
filter_missing_fields(compliance_result) ==
    IF compliance_result = <<>> THEN <<>>
    ELSE LET evaluation == Head(compliance_result)
             rest == filter_missing_fields(Tail(compliance_result))
         IN  IF RequiredFields \subseteq DOMAIN evaluation THEN <<evaluation>> \o rest ELSE rest

\* a variant of newer_founded that looks at the first new verdict only
newer_founded_first(old_resource_id, latest_evaluations) ==
    /\ latest_evaluations # <<>>
    /\ old_resource_id = latest_evaluations[1].ComplianceResourceId

\* lines 435-437
newer_founded(old_resource_id, latest_evaluations) ==
    \E i \in 1..Len(latest_evaluations) :
        old_resource_id = latest_evaluations[i].ComplianceResourceId

\* lines 432-439
RECURSIVE cleaned_evaluations(_, _)
cleaned_evaluations(old_eval_list, latest_evaluations) ==
    IF old_eval_list = <<>> THEN <<>>
    ELSE LET old_resource_id == Head(old_eval_list)
             rest == cleaned_evaluations(Tail(old_eval_list), latest_evaluations)
         IN  IF ~newer_founded(old_resource_id, latest_evaluations)
             THEN <<build_evaluation(old_resource_id, "NOT_APPLICABLE", DEFAULT_RESOURCE_TYPE, None)>> \o rest
             ELSE rest

\* a variant of clean_up_old_evaluations that puts the new verdicts first
clean_up_old_evaluations_appended(latest_evaluations, old_eval_list) ==
    latest_evaluations \o cleaned_evaluations(old_eval_list, latest_evaluations)

\* line 441, given the list the pagination loop collected
clean_up_old_evaluations(latest_evaluations, old_eval_list) ==
    cleaned_evaluations(old_eval_list, latest_evaluations) \o latest_evaluations

\* a variant of first_batch that takes one verdict too many
first_batch_over(evaluations) == SubSeq(evaluations, 1, Min(BatchSize + 1, Len(evaluations)))

\* evaluations[:100]
first_batch(evaluations) == SubSeq(evaluations, 1, Min(BatchSize, Len(evaluations)))

\* del evaluations[:100]
del_first_batch(evaluations) ==
    SubSeq(evaluations, Min(BatchSize, Len(evaluations)) + 1, Len(evaluations))

(***************************************************************************)
(* The inputs of an invocation and the answers of the collaborators        *)
(***************************************************************************)
SeqsUpTo(S, n) == UNION {[1..k -> S] : k \in 0..n}

\* values of event['ruleParameters'] per key: JSON strings, and for the
\* ticket lifetime also JSON numbers
TicketLifetimeValues ==
    {PyStr(<<"2", "4">>), PyStr(<<"x">>), PyInt(24)}
RealmValues == {PyStr(<<>>), PyStr(<<"A", ".", "B">>), PyStr(<<"a", ".", "b">>)}
DomainValues == {PyStr(<<>>), PyStr(<<"A", ".", "B">>), PyStr(<<"-", "a", ".", "b">>)}
AdminServerValues == {PyStr(<<>>), PyStr(<<"A", ".", "B">>), PyStr(<<"a", ".", "b", ":", "x">>)}
KdcServerValues == {PyStr(<<>>), PyStr(<<"A", ".", "B">>), PyStr(<<"a", ":", "1">>)}

ParameterValues(k) ==
    CASE k = "TicketLifetimeInHours" -> TicketLifetimeValues
      [] k = "Realm" -> RealmValues
      [] k = "Domain" -> DomainValues
      [] k = "AdminServer" -> AdminServerValues
      [] k = "KdcServer" -> KdcServerValues

RuleParameterMaps ==
    UNION {{p \in [K -> UNION {ParameterValues(k) : k \in K}] :
               \A k \in K : p[k] \in ParameterValues(k)} : K \in SUBSET ParameterNames}

MessageTypes == {"ScheduledNotification", "UnexpectedNotification"}

ClusterIds == {"j-1", "j-2"}
OldResourceIds == {"j-0", "j-1"}
ClusterStates == {"RUNNING", "TERMINATING", "TERMINATED", "TERMINATED_WITH_ERRORS"}

\* answers of describe_cluster: ["Cluster"] with a state and, optionally, the
\* name of a security configuration
DescribedClusters ==
    {[Status |-> [State |-> st]] : st \in ClusterStates}
    \cup {[Status |-> [State |-> st], SecurityConfiguration |-> "sc"] : st \in ClusterStates}

DocStrings == {PyStr(<<"A", ".", "B">>), PyStr(<<"C", ".", "D">>)}
DocLifetimes == {PyInt(10), PyInt(30)}

CrossRealmTrustConfigurations ==
    [Realm : DocStrings, Domain : DocStrings, AdminServer : DocStrings, KdcServer : DocStrings]

ClusterDedicatedKdcConfigurations ==
    [TicketLifetimeInHours : DocLifetimes]
    \cup [TicketLifetimeInHours : DocLifetimes,
          CrossRealmTrustConfiguration : CrossRealmTrustConfigurations]

\* json.loads of the security configuration documents the store answers with
SecurityConfigurationDocuments ==
    {[EncryptionConfiguration |-> "enc"],
     [AuthenticationConfiguration |-> [Other |-> "x"]],
     [AuthenticationConfiguration |-> [KerberosConfiguration |-> [ExternalKdcConfiguration |-> "x"]]]}
    \cup {[AuthenticationConfiguration |->
              [KerberosConfiguration |-> [ClusterDedicatedKdcConfiguration |-> k]]] :
          k \in ClusterDedicatedKdcConfigurations}

(***************************************************************************)
(* State                                                                   *)
(***************************************************************************)
VARIABLES
    pc,                     \* the call lambda_handler is about to make, or "done"
    rule_parameters,        \* json.loads(event['ruleParameters'])
    message_type,           \* invoking_event['messageType']
    valid_rule_parameters,  \* lambda_handler, line 456
    cluster_list,           \* evaluate_compliance / get_all_cluster: all_clusters
    cluster_idx,            \* position of the for loop of line 148
    described_cluster,      \* evaluate_compliance, line 151
    cluster_sc_details,     \* evaluate_compliance, line 161
    ec_evaluations,         \* evaluate_compliance: evaluations
    compliance_result,      \* lambda_handler, line 465
    latest_evaluations,     \* lambda_handler, line 478
    old_eval_list,          \* clean_up_old_evaluations, line 417
    evaluations,            \* lambda_handler, line 477
    response,               \* how the invocation ended: a return value or an exception
    calls,                  \* the collaborator calls made so far, in order
    hv_hostname,            \* is_valid_hostname called on its own: hostname
    hv_type                 \* is_valid_hostname called on its own: type

vars == <<pc, rule_parameters, message_type, valid_rule_parameters, cluster_list,
          cluster_idx, described_cluster, cluster_sc_details, ec_evaluations,
          compliance_result, latest_evaluations, old_eval_list, evaluations,
          response, calls, hv_hostname, hv_type>>

inputs == <<rule_parameters, message_type, hv_hostname, hv_type>>
ec_locals == <<cluster_list, cluster_idx, described_cluster, cluster_sc_details, ec_evaluations>>
handler_lists == <<compliance_result, latest_evaluations, old_eval_list, evaluations>>

Running == [kind |-> "running"]

Call(op, ok, data) == [op |-> op, ok |-> ok, data |-> data]
NumCalls(op) == Cardinality({i \in 1..Len(calls) : calls[i].op = op})

Init ==
    /\ pc = "evaluate_parameters"
    /\ rule_parameters \in RuleParameterMaps
    /\ message_type \in MessageTypes
    /\ valid_rule_parameters = None
    /\ cluster_list = <<>>
    /\ cluster_idx = 0
    /\ described_cluster = None
    /\ cluster_sc_details = None
    /\ ec_evaluations = <<>>
    /\ compliance_result = None
    /\ latest_evaluations = <<>>
    /\ old_eval_list = <<>>
    /\ evaluations = <<>>
    /\ response = Running
    /\ calls = <<>>
    /\ hv_hostname = None
    /\ hv_type = None

(***************************************************************************)
(* lambda_handler, lines 449-469: the parameters are validated, then the   *)
(* message type is checked and evaluate_compliance is entered.             *)
(***************************************************************************)
ReturnDict(d) == [kind |-> "return", type |-> "dict", val |-> d]
ReturnList(l) == [kind |-> "return", type |-> "list", val |-> l]

\* a variant of parameters_except that reports the rejection as an internal error
parameters_except_internal(ex) ==
    IF ex.exc = "ValueError"
    THEN ReturnDict(build_internal_error_response(
             <<"Customer error while parsing input parameters">>, str_ex(ex)))
    ELSE [kind |-> "raise", exc |-> ex.exc]

\* the first try block: only ValueError is caught (lines 455-458)
parameters_except(ex) ==
    IF ex.exc = "ValueError"
    THEN ReturnDict(build_parameters_value_error_response(ex))
    ELSE [kind |-> "raise", exc |-> ex.exc]

EvaluateParameters ==
    /\ pc = "evaluate_parameters"
    /\ LET r == evaluate_parameters(rule_parameters)
       IN  IF ~r.ok
           THEN /\ response' = parameters_except(r)
                /\ pc' = "done"
                /\ UNCHANGED valid_rule_parameters
           ELSE IF message_type \notin {"ConfigurationItemChangeNotification",
                                        "ScheduledNotification",
                                        "OversizedConfigurationItemChangeNotification"}
           THEN /\ valid_rule_parameters' = r.val
                /\ response' = ReturnDict(build_internal_error_response(
                                   <<"Unexpected message type">>, <<message_type>>))
                /\ pc' = "done"
           ELSE /\ valid_rule_parameters' = r.val
                /\ response' = response
                /\ pc' = "list_clusters"
    /\ UNCHANGED <<inputs, ec_locals, handler_lists, calls>>

(***************************************************************************)
(* get_all_cluster, lines 208-217, and lines 145-146 and 477-482 when the  *)
(* enumeration is empty.                                                   *)
(***************************************************************************)
\* a variant of account_evaluation that follows Scenario 7 of the docstring
account_evaluation_compliant ==
    build_evaluation(AccountId, "COMPLIANT", "AWS::::Account", None)

\* lines 480-482: the account-level verdict reported when nothing was evaluated
account_evaluation ==
    build_evaluation(AccountId, "NOT_APPLICABLE", "AWS::::Account", None)

ListClusters ==
    /\ pc = "list_clusters"
    /\ \E page \in SeqsUpTo(ClusterIds, MaxClusters - Len(cluster_list)), more \in BOOLEAN :
         /\ more => NumCalls("list_clusters") + 1 < MaxPages
         /\ calls' = Append(calls, Call("list_clusters", TRUE, <<>>))
         /\ LET all_clusters == cluster_list \o [i \in 1..Len(page) |-> [Id |-> page[i]]]
            IN  /\ cluster_list' = all_clusters
                /\ IF more
                   THEN /\ pc' = "list_clusters"
                        /\ UNCHANGED <<cluster_idx, handler_lists>>
                   ELSE IF all_clusters = <<>>
                   THEN /\ pc' = "get_compliance_details"
                        /\ compliance_result' = None
                        /\ latest_evaluations' = <<account_evaluation>>
                        /\ UNCHANGED <<cluster_idx, old_eval_list, evaluations>>
                   ELSE /\ pc' = "describe_cluster"
                        /\ cluster_idx' = 1
                        /\ UNCHANGED handler_lists
    /\ UNCHANGED <<inputs, valid_rule_parameters, described_cluster, cluster_sc_details,
                   ec_evaluations, response>>

\* a variant of FailInTry that swallows the error and returns the verdicts so far
FailInTry_swallow(op, data) ==
    /\ calls' = Append(calls, Call(op, FALSE, data))
    /\ pc' = "describe_cluster"
    /\ cluster_idx' = Len(cluster_list) + 1
    /\ UNCHANGED <<inputs, valid_rule_parameters, cluster_list, described_cluster,
                   cluster_sc_details, ec_evaluations, handler_lists, response>>

\* a collaborator call inside the try block of lines 460-475 raises ClientError
FailInTry(op, data) ==
    /\ \E code \in ErrorCodes : response' = except_clauses(ClientError(code))
    /\ calls' = Append(calls, Call(op, FALSE, data))
    /\ pc' = "done"
    /\ UNCHANGED <<inputs, valid_rule_parameters, ec_locals, handler_lists>>

ListClustersFails ==
    /\ pc = "list_clusters"
    /\ FailInTry("list_clusters", <<>>)

(***************************************************************************)
(* evaluate_compliance, lines 148-206: one iteration of the for loop is a  *)
(* describe_cluster call and, for a cluster that is not terminated and has *)
(* a security configuration, a describe_security_configuration call.       *)
(***************************************************************************)
\* an exception raised by the loop body itself propagates through the try block
RaiseInTry(ex) ==
    /\ response' = except_clauses(ex)
    /\ pc' = "done"

DescribeCluster ==
    /\ pc = "describe_cluster"
    /\ cluster_idx <= Len(cluster_list)
    /\ \E d \in DescribedClusters :
         LET cluster_id == cluster_list[cluster_idx].Id
             v == decide_described(cluster_id, d)
         IN  /\ described_cluster' = d
             /\ calls' = Append(calls, Call("describe_cluster", TRUE, cluster_id))
             /\ IF v = None
                THEN /\ pc' = "describe_security_configuration"
                     /\ UNCHANGED <<ec_evaluations, cluster_idx>>
                ELSE /\ pc' = "describe_cluster"
                     /\ ec_evaluations' = Append(ec_evaluations, v)
                     /\ cluster_idx' = cluster_idx + 1
    /\ cluster_sc_details' = None
    /\ UNCHANGED <<inputs, valid_rule_parameters, cluster_list, handler_lists, response>>

DescribeClusterFails ==
    /\ pc = "describe_cluster"
    /\ cluster_idx <= Len(cluster_list)
    /\ FailInTry("describe_cluster", cluster_list[cluster_idx].Id)

DescribeSecurityConfiguration ==
    /\ pc = "describe_security_configuration"
    /\ \E doc \in SecurityConfigurationDocuments :
         LET cluster_id == cluster_list[cluster_idx].Id
             r == decide_security_configuration(cluster_id, doc, valid_rule_parameters)
         IN  /\ cluster_sc_details' = doc
             /\ calls' = Append(calls, Call("describe_security_configuration", TRUE,
                                            described_cluster.SecurityConfiguration))
             /\ IF r.ok
                THEN /\ ec_evaluations' = Append(ec_evaluations, r.val)
                     /\ cluster_idx' = cluster_idx + 1
                     /\ pc' = "describe_cluster"
                     /\ UNCHANGED response
                ELSE /\ RaiseInTry(r)
                     /\ UNCHANGED <<ec_evaluations, cluster_idx>>
    /\ UNCHANGED <<inputs, valid_rule_parameters, cluster_list, described_cluster, handler_lists>>

DescribeSecurityConfigurationFails ==
    /\ pc = "describe_security_configuration"
    /\ FailInTry("describe_security_configuration", described_cluster.SecurityConfiguration)

\* line 206 and lines 483-495: the loop is over, evaluate_compliance returns its
\* list and lambda_handler keeps the verdicts that have every required field.
\* The answers held for the last cluster go out of scope.
ReturnEvaluations ==
    /\ pc = "describe_cluster"
    /\ cluster_idx > Len(cluster_list)
    /\ compliance_result' = ec_evaluations
    /\ latest_evaluations' = filter_missing_fields(ec_evaluations)
    /\ pc' = "get_compliance_details"
    /\ described_cluster' = None
    /\ cluster_sc_details' = None
    /\ UNCHANGED <<inputs, valid_rule_parameters, cluster_list, cluster_idx, ec_evaluations,
                   old_eval_list, evaluations, response, calls>>

(***************************************************************************)
(* clean_up_old_evaluations, lines 408-441, called outside any try block   *)
(***************************************************************************)
GetComplianceDetails ==
    /\ pc = "get_compliance_details"
    /\ \E page \in SeqsUpTo(OldResourceIds, MaxOld - Len(old_eval_list)), more \in BOOLEAN :
         /\ more => NumCalls("get_compliance_details_by_config_rule") + 1 < MaxPages
         /\ calls' = Append(calls, Call("get_compliance_details_by_config_rule", TRUE, <<>>))
         /\ IF more
            THEN /\ old_eval_list' = old_eval_list \o page
                 /\ pc' = "get_compliance_details"
                 /\ UNCHANGED evaluations
            ELSE /\ old_eval_list' = old_eval_list \o page
                 /\ evaluations' = clean_up_old_evaluations(latest_evaluations,
                                                            old_eval_list \o page)
                 /\ pc' = "put_evaluations"
    /\ UNCHANGED <<inputs, valid_rule_parameters, ec_locals, compliance_result,
                   latest_evaluations, response>>

\* a collaborator call after line 475 raises ClientError: nothing catches it
FailOutsideTry(op, data) ==
    /\ response' = [kind |-> "raise", exc |-> "ClientError"]
    /\ calls' = Append(calls, Call(op, FALSE, data))
    /\ pc' = "done"
    /\ UNCHANGED <<inputs, valid_rule_parameters, ec_locals, handler_lists>>

GetComplianceDetailsFails ==
    /\ pc = "get_compliance_details"
    /\ FailOutsideTry("get_compliance_details_by_config_rule", <<>>)

(***************************************************************************)
(* lambda_handler, lines 507-518: the submission loop                      *)
(***************************************************************************)
PutEvaluations ==
    /\ pc = "put_evaluations"
    /\ evaluations # <<>>
    /\ calls' = Append(calls, Call("put_evaluations", TRUE, first_batch(evaluations)))
    /\ evaluations' = del_first_batch(evaluations)
    /\ IF evaluations' = <<>>
       THEN /\ pc' = "done"
            /\ response' = ReturnList(evaluations')
       ELSE /\ pc' = "put_evaluations"
            /\ UNCHANGED response
    /\ UNCHANGED <<inputs, valid_rule_parameters, ec_locals, compliance_result,
                   latest_evaluations, old_eval_list>>

PutEvaluationsFails ==
    /\ pc = "put_evaluations"
    /\ evaluations # <<>>
    /\ FailOutsideTry("put_evaluations", first_batch(evaluations))

Next ==
    \/ EvaluateParameters
    \/ ListClusters
    \/ ListClustersFails
    \/ DescribeCluster
    \/ DescribeClusterFails
    \/ DescribeSecurityConfiguration
    \/ DescribeSecurityConfigurationFails
    \/ ReturnEvaluations
    \/ GetComplianceDetails
    \/ GetComplianceDetailsFails
    \/ PutEvaluations
    \/ PutEvaluationsFails

Spec == Init /\ [][Next]_vars

(***************************************************************************)
(* The submission loop on long verdict lists: the state at line 507 with   *)
(* n verdicts to submit, one per evaluated cluster, the clusters named by  *)
(* their position.                                                         *)
(***************************************************************************)
InitSubmit ==
    /\ pc = "put_evaluations"
    /\ rule_parameters = <<>>
    /\ message_type = "ScheduledNotification"
    /\ valid_rule_parameters = <<>>
    /\ cluster_list = <<>>
    /\ cluster_idx = 0
    /\ described_cluster = None
    /\ cluster_sc_details = None
    /\ ec_evaluations = <<>>
    /\ \E n \in 1..MaxEvals :
         /\ latest_evaluations =
                [i \in 1..n |-> build_evaluation(i, "COMPLIANT", DEFAULT_RESOURCE_TYPE, None)]
         /\ compliance_result = latest_evaluations
         /\ evaluations = clean_up_old_evaluations(latest_evaluations, <<>>)
    /\ old_eval_list = <<>>
    /\ response = Running
    /\ calls = <<>>
    /\ hv_hostname = None
    /\ hv_type = None

NextSubmit ==
    \/ PutEvaluations
    \/ PutEvaluationsFails

SpecSubmit == InitSubmit /\ [][NextSubmit]_vars

\* lambda_handler runs to completion: a call returns or raises, and the loop goes on
FairSpecSubmit == SpecSubmit /\ WF_vars(NextSubmit)

(***************************************************************************)
(* is_valid_hostname on its own, lines 236-249: called on every string     *)
(* of up to MaxHostLen characters over HostnameChars and on a few strings  *)
(* at the length limits, in both modes.                                    *)
(***************************************************************************)
HostnameChars == {"a", "A", "1", "-", ".", ":", "\n"}

Label(n) == [i \in 1..n |-> "a"]

\* a label of 63 and of 64 characters; a name of 255 and of 256 characters
LongHostnames ==
    { Label(63) \o <<".">> \o Label(1),
      Label(64) \o <<".">> \o Label(1),
      Label(63) \o <<".">> \o Label(63) \o <<".">> \o Label(63) \o <<".">> \o Label(63),
      Label(63) \o <<".">> \o Label(63) \o <<".">> \o Label(63) \o <<".">> \o Label(62)
          \o <<".">> \o Label(1) }

HostnameTypes == {"DOMAIN", "FQDN"}

ReturnBool(b) == [kind |-> "return", type |-> "bool", val |-> b]

InitHostname ==
    /\ pc = "is_valid_hostname"
    /\ hv_hostname \in SeqsUpTo(HostnameChars, MaxHostLen) \cup LongHostnames
    /\ hv_type \in HostnameTypes
    /\ rule_parameters = <<>>
    /\ message_type = "ScheduledNotification"
    /\ valid_rule_parameters = None
    /\ cluster_list = <<>>
    /\ cluster_idx = 0
    /\ described_cluster = None
    /\ cluster_sc_details = None
    /\ ec_evaluations = <<>>
    /\ compliance_result = None
    /\ latest_evaluations = <<>>
    /\ old_eval_list = <<>>
    /\ evaluations = <<>>
    /\ response = Running
    /\ calls = <<>>

IsValidHostname ==
    /\ pc = "is_valid_hostname"
    /\ LET r == is_valid_hostname(hv_hostname, hv_type)
       IN  response' = IF r.ok THEN ReturnBool(r.val)
                       ELSE [kind |-> "raise", exc |-> r.exc]
    /\ pc' = "done"
    /\ UNCHANGED <<inputs, valid_rule_parameters, ec_locals, handler_lists, calls>>

NextHostname == IsValidHostname

SpecHostname == InitHostname /\ [][NextHostname]_vars

(***************************************************************************)
(* Properties                                                              *)
(***************************************************************************)
Last(q) == q[Len(q)]

\* the number a string of decimal digits denotes
DigitValue(c) ==
    CASE c = "0" -> 0 [] c = "1" -> 1 [] c = "2" -> 2 [] c = "3" -> 3 [] c = "4" -> 4
      [] c = "5" -> 5 [] c = "6" -> 6 [] c = "7" -> 7 [] c = "8" -> 8 [] c = "9" -> 9

RECURSIVE DecimalValue(_)
DecimalValue(q) ==
    IF q = <<>> THEN 0 ELSE 10 * DecimalValue(SubSeq(q, 1, Len(q) - 1)) + DigitValue(Last(q))

NumericValue(v) == IF v.type = "int" THEN v.val ELSE DecimalValue(v.val)

StringValued(p) == \A k \in DOMAIN p : p[k].type = "str"

LastCallIs(op, ok) == calls # <<>> /\ Last(calls).op = op /\ Last(calls).ok = ok

\* the security configuration of the current cluster has just been fetched
JustFetched ==
    /\ LastCallIs("describe_security_configuration", TRUE)
    /\ cluster_sc_details # None

\* the loop body has just decided the current cluster, or raised
JustDecided ==
    /\ described_cluster # None
    /\ \/ JustFetched
       \/ LastCallIs("describe_cluster", TRUE) /\ pc = "describe_cluster"

\* the loop body appended verdict v for the cluster it has just decided
Appended(v) ==
    /\ response = Running
    /\ pc = "describe_cluster"
    /\ ec_evaluations # <<>>
    /\ Last(ec_evaluations) = v

TicketLifetimeAnnotation ==
    "TicketLifetimeInHours is smaller than the specified Rule parameter TicketLifetimeInHours."

DedicatedKdc(doc) ==
    doc.AuthenticationConfiguration.KerberosConfiguration.ClusterDedicatedKdcConfiguration

HasDedicatedKdc(doc) ==
    /\ "AuthenticationConfiguration" \in DOMAIN doc
    /\ "KerberosConfiguration" \in DOMAIN doc.AuthenticationConfiguration
    /\ "ClusterDedicatedKdcConfiguration" \in
           DOMAIN doc.AuthenticationConfiguration.KerberosConfiguration

\* C1: once evaluate_parameters has accepted a map of strings that holds
\* TicketLifetimeInHours, a cluster that is not terminated and whose security
\* configuration has a ClusterDedicatedKdcConfiguration with a ticket lifetime
\* numerically smaller than the parameter gets the verdict NON_COMPLIANT with
\* the ticket-lifetime annotation.
C1_TicketLifetimeNonCompliant ==
    ( /\ JustFetched
      /\ StringValued(rule_parameters)
      /\ "TicketLifetimeInHours" \in DOMAIN rule_parameters
      /\ HasDedicatedKdc(cluster_sc_details)
      /\ NumericValue(DedicatedKdc(cluster_sc_details).TicketLifetimeInHours)
           < NumericValue(rule_parameters["TicketLifetimeInHours"]) )
    => Appended([Annotation             |-> TicketLifetimeAnnotation,
                 ComplianceResourceType |-> "AWS::EMR::Cluster",
                 ComplianceResourceId   |-> cluster_list[cluster_idx - 1].Id,
                 ComplianceType         |-> "NON_COMPLIANT",
                 OrderingTimestamp      |-> NotificationCreationTime])

IsErrorResponse ==
    /\ response.kind = "return"
    /\ response.type = "dict"
    /\ DOMAIN response.val = {"internalErrorMessage", "internalErrorDetails",
                              "customerErrorMessage", "customerErrorCode"}

\* evaluate_parameters rejects the parameters of this invocation
Rejected ==
    LET r == evaluate_parameters(rule_parameters)
    IN  ~r.ok /\ r.exc = "ValueError"

\* C2: when parameter validation rejects the parameters or a collaborator
\* call fails, the invocation ends by returning an error-response object; no
\* exception escapes lambda_handler.
C2_ErrorsReturnedNotRaised ==
    /\ (pc = "done" /\ Rejected) => IsErrorResponse
    /\ (calls # <<>> /\ ~Last(calls).ok) => IsErrorResponse

\* C3: evaluate_parameters either returns the parameters or fails with a
\* ValueError that carries the name of one parameter of the map; it fails in
\* no other way, and what it accepts has a numeric ticket lifetime, an
\* upper-case realm and no empty host name.
C3_ValidatorTotal ==
    pc # "evaluate_parameters" =>
        \/ /\ valid_rule_parameters = rule_parameters
           /\ "TicketLifetimeInHours" \in DOMAIN rule_parameters
                => isnumeric(str(rule_parameters["TicketLifetimeInHours"]))
           /\ "Realm" \in DOMAIN rule_parameters => isupper(rule_parameters["Realm"].val)
           /\ \A k \in DOMAIN rule_parameters \ {"TicketLifetimeInHours"} :
                  rule_parameters[k].val # <<>>
        \/ /\ valid_rule_parameters = None
           /\ \E k \in DOMAIN rule_parameters :
                  response = ReturnDict(build_parameters_value_error_response(
                                            Raise("ValueError", k)))

NotApplicableFor(id) ==
    [ComplianceResourceType |-> "AWS::EMR::Cluster",
     ComplianceResourceId   |-> id,
     ComplianceType         |-> "NOT_APPLICABLE",
     OrderingTimestamp      |-> NotificationCreationTime]

\* clean_up_old_evaluations has just returned: nothing is submitted yet
JustReconciled ==
    /\ pc = "put_evaluations"
    /\ LastCallIs("get_compliance_details_by_config_rule", TRUE)

NewIds == {latest_evaluations[i].ComplianceResourceId : i \in 1..Len(latest_evaluations)}
StaleIds == {old_eval_list[i] : i \in 1..Len(old_eval_list)} \ NewIds
StaleEntries == {i \in 1..Len(old_eval_list) : old_eval_list[i] \notin NewIds}

\* C4 as stated: the result is one NOT_APPLICABLE verdict for every resource
\* id of the previous list that is not in the new list, placed first, followed
\* by the new verdicts unchanged and in order.
C4_OneVerdictPerStaleId ==
    JustReconciled =>
        LET k == Cardinality(StaleIds)
        IN  /\ Len(evaluations) = k + Len(latest_evaluations)
            /\ \A j \in 1..Len(latest_evaluations) : evaluations[k + j] = latest_evaluations[j]
            /\ \A id \in StaleIds :
                   Cardinality({j \in 1..k : evaluations[j] = NotApplicableFor(id)}) = 1

\* C4 as amended: the result is one NOT_APPLICABLE verdict for every entry of
\* the previous list whose resource id is not in the new list, in the order of
\* the previous list and placed first, followed by the new verdicts unchanged
\* and in order; it holds no verdict for a resource id of neither list.
C4_OneVerdictPerStaleEntry ==
    JustReconciled =>
        LET k == Cardinality(StaleEntries)
            rank(i) == Cardinality({e \in StaleEntries : e <= i})
        IN  /\ Len(evaluations) = k + Len(latest_evaluations)
            /\ \A j \in 1..Len(latest_evaluations) : evaluations[k + j] = latest_evaluations[j]
            /\ \A i \in StaleEntries : evaluations[rank(i)] = NotApplicableFor(old_eval_list[i])
            /\ \A j \in 1..Len(evaluations) :
                   evaluations[j].ComplianceResourceId \in StaleIds \cup NewIds

\* previous verdicts for j-0 and j-1, a new verdict for j-1 only: the result is
\* NOT_APPLICABLE for j-0, then the new verdict of j-1
C4_Witness ==
    /\ JustReconciled
    /\ old_eval_list = <<"j-0", "j-1">>
    /\ Len(latest_evaluations) = 1
    /\ latest_evaluations[1].ComplianceResourceId = "j-1"
    /\ evaluations = <<NotApplicableFor("j-0"), latest_evaluations[1]>>

\* every check of the decision procedure passes for the current cluster
AllChecksPass ==
    /\ described_cluster.Status.State \notin {"TERMINATING", "TERMINATED", "TERMINATED_WITH_ERRORS"}
    /\ "SecurityConfiguration" \in DOMAIN described_cluster
    /\ cluster_sc_details # None
    /\ HasDedicatedKdc(cluster_sc_details)
    /\ \/ "TicketLifetimeInHours" \notin DOMAIN rule_parameters
       \/ ~(NumericValue(DedicatedKdc(cluster_sc_details).TicketLifetimeInHours)
              < NumericValue(rule_parameters["TicketLifetimeInHours"]))
    /\ "CrossRealmTrustConfiguration" \in DOMAIN DedicatedKdc(cluster_sc_details)
    /\ \A f \in {"Realm", "Domain", "AdminServer", "KdcServer"} :
           f \in DOMAIN rule_parameters =>
               DedicatedKdc(cluster_sc_details).CrossRealmTrustConfiguration[f].val
                   = rule_parameters[f].val

\* C5: the verdict of a cluster is COMPLIANT exactly when every check passes.
C5_CompliantIffAllChecksPass ==
    JustDecided =>
        ( AllChecksPass <=>
              Appended([ComplianceResourceType |-> "AWS::EMR::Cluster",
                        ComplianceResourceId   |-> cluster_list[cluster_idx - 1].Id,
                        ComplianceType         |-> "COMPLIANT",
                        OrderingTimestamp      |-> NotificationCreationTime]) )

\* C6: when evaluate_parameters rejects a parameter, lambda_handler returns
\* the customer error InvalidParameterValueException whose message names that
\* parameter, and no collaborator is called.
C6_RejectionIsCustomerError ==
    (pc # "evaluate_parameters" /\ Rejected) =>
        /\ pc = "done"
        /\ IsErrorResponse
        /\ response.val.customerErrorCode = <<"InvalidParameterValueException">>
        /\ response.val.customerErrorMessage = <<evaluate_parameters(rule_parameters).arg>>
        /\ evaluate_parameters(rule_parameters).arg \in DOMAIN rule_parameters
        /\ calls = <<>>

\* the realm is rejected although a valid ticket lifetime comes before it
C6_Witness ==
    /\ pc = "done"
    /\ "TicketLifetimeInHours" \in DOMAIN rule_parameters
    /\ "Realm" \in DOMAIN rule_parameters
    /\ IsErrorResponse
    /\ response.val.customerErrorMessage = <<"Realm">>

FetchOps == {"describe_cluster", "describe_security_configuration"}

\* C7: once describe_cluster or describe_security_configuration has failed,
\* the invocation is over: the failed call is the last one, so that no later
\* cluster is described or fetched and nothing is submitted, and the
\* invocation has returned an error response.
C7_FetchFailureAborts ==
    \A j \in 1..Len(calls) :
        (calls[j].op \in FetchOps /\ ~calls[j].ok) =>
            /\ j = Len(calls)
            /\ pc = "done"
            /\ IsErrorResponse
            /\ \A i \in 1..Len(calls) : calls[i].op # "put_evaluations"

\* the fetch for the second cluster fails after the first one got its verdict
C7_Witness ==
    /\ LastCallIs("describe_security_configuration", FALSE)
    /\ cluster_idx = 2
    /\ Len(cluster_list) = 2
    /\ Len(ec_evaluations) = 1
    /\ pc = "done"

\* the verdicts of the successful put_evaluations calls, in call order
RECURSIVE Submitted(_)
Submitted(cs) ==
    IF cs = <<>> THEN <<>>
    ELSE (IF Head(cs).op = "put_evaluations" /\ Head(cs).ok THEN Head(cs).data ELSE <<>>)
             \o Submitted(Tail(cs))

\* In SpecSubmit no previous verdict is listed, so that the final verdict list
\* is latest_evaluations.
C8_ChunksInvariant ==
    /\ \A j \in 1..Len(calls) :
           calls[j].op = "put_evaluations" =>
               Len(calls[j].data) >= 1 /\ Len(calls[j].data) <= 100
    /\ Submitted(calls) \o evaluations = latest_evaluations
    /\ pc = "put_evaluations" => evaluations # <<>>
    /\ (pc = "done" /\ response.kind = "return") =>
           /\ evaluations = <<>>
           /\ Submitted(calls) = latest_evaluations
           /\ \A j \in 1..Len(calls) : calls[j].ok

\* C8: every put_evaluations call carries between 1 and 100 verdicts, the
\* chunks of the successful calls followed by the verdicts still to submit
\* are the final verdict list, the loop goes on while verdicts are left, and
\* it ends: with every verdict submitted once when every call succeeds.
C8_ChunkedAndComplete ==
    /\ []C8_ChunksInvariant
    /\ <>(pc = "done" /\ (response.kind = "raise" \/ response = ReturnList(<<>>)))

\* 201 verdicts went out in three calls of 100, 100 and 1
C8_Witness ==
    /\ pc = "done"
    /\ response = ReturnList(<<>>)
    /\ Len(latest_evaluations) = 201
    /\ Len(calls) = 3
    /\ Len(calls[1].data) = 100 /\ Len(calls[2].data) = 100 /\ Len(calls[3].data) = 1

\* C9: a cluster that is terminating, terminated or terminated with errors
\* gets the verdict NOT_APPLICABLE without annotation whatever the parameters
\* and its security configuration, and the loop moves on to the next cluster
\* without fetching its security configuration.
C9_TerminatedNotApplicable ==
    ( /\ LastCallIs("describe_cluster", TRUE)
      /\ described_cluster # None
      /\ described_cluster.Status.State \in
             {"TERMINATING", "TERMINATED", "TERMINATED_WITH_ERRORS"} )
    => /\ Appended(NotApplicableFor(cluster_list[cluster_idx - 1].Id))
       /\ cluster_sc_details = None

\* a terminating cluster with a security configuration, all five parameters set
C9_Witness ==
    /\ LastCallIs("describe_cluster", TRUE)
    /\ described_cluster # None
    /\ described_cluster.Status.State = "TERMINATING"
    /\ "SecurityConfiguration" \in DOMAIN described_cluster
    /\ DOMAIN rule_parameters = ParameterNames
    /\ Appended(NotApplicableFor(cluster_list[cluster_idx - 1].Id))

AllCallsSucceeded == \A j \in 1..Len(calls) : calls[j].ok

SameIds(verdicts, n) ==
    \A i \in 1..n : verdicts[i].ComplianceResourceId = cluster_list[i].Id

\* C10: when the enumeration is not empty and every collaborator call
\* succeeds, evaluate_compliance raises nothing, has one verdict for each
\* cluster it went through, and returns one verdict per enumerated cluster,
\* the i-th for the i-th cluster.
C10_OneVerdictPerCluster ==
    ( /\ AllCallsSucceeded
      /\ pc \notin {"evaluate_parameters", "list_clusters"}
      /\ cluster_list # <<>> )
    => /\ response.kind # "raise"
       /\ pc \in {"describe_cluster", "describe_security_configuration"} =>
              /\ Len(ec_evaluations) = cluster_idx - 1
              /\ SameIds(ec_evaluations, cluster_idx - 1)
       /\ pc \in {"get_compliance_details", "put_evaluations", "done"} =>
              /\ Len(compliance_result) = Len(cluster_list)
              /\ SameIds(compliance_result, Len(cluster_list))

\* get_all_cluster has returned an empty enumeration
EmptyEnumeration ==
    /\ pc \in {"get_compliance_details", "put_evaluations", "done"}
    /\ cluster_list = <<>>
    /\ \E j \in 1..Len(calls) : calls[j].op = "list_clusters"
    /\ \A j \in 1..Len(calls) : calls[j].op = "list_clusters" => calls[j].ok

AccountNotApplicable ==
    [ComplianceResourceType |-> "AWS::::Account",
     ComplianceResourceId   |-> AccountId,
     ComplianceType         |-> "NOT_APPLICABLE",
     OrderingTimestamp      |-> NotificationCreationTime]

NotApplicableForEach(ids) == [i \in 1..Len(ids) |-> NotApplicableFor(ids[i])]

PassedEarlierChecks ==
    /\ JustFetched
    /\ described_cluster.Status.State \notin {"TERMINATING", "TERMINATED", "TERMINATED_WITH_ERRORS"}
    /\ HasDedicatedKdc(cluster_sc_details)
    /\ \/ "TicketLifetimeInHours" \notin DOMAIN rule_parameters
       \/ /\ rule_parameters["TicketLifetimeInHours"].type = "int"
          /\ ~(DedicatedKdc(cluster_sc_details).TicketLifetimeInHours.val
                 < rule_parameters["TicketLifetimeInHours"].val)
    /\ "CrossRealmTrustConfiguration" \in DOMAIN DedicatedKdc(cluster_sc_details)

\* parameter f is supplied and differs from the document's field f
Mismatch(f) ==
    /\ f \in DOMAIN rule_parameters
    /\ DedicatedKdc(cluster_sc_details).CrossRealmTrustConfiguration[f].val
           # rule_parameters[f].val

ClusterVerdict(compliance_type) ==
    [ComplianceResourceType |-> "AWS::EMR::Cluster",
     ComplianceResourceId   |-> cluster_list[cluster_idx - 1].Id,
     ComplianceType         |-> compliance_type,
     OrderingTimestamp      |-> NotificationCreationTime]

NonCompliantWith(annotation) ==
    [ComplianceResourceType |-> "AWS::EMR::Cluster",
     ComplianceResourceId   |-> cluster_list[cluster_idx - 1].Id,
     ComplianceType         |-> "NON_COMPLIANT",
     Annotation             |-> annotation,
     OrderingTimestamp      |-> NotificationCreationTime]

\* C13: for a non-terminated cluster that passed the Kerberos, ticket-lifetime
\* and CrossRealmTrustConfiguration checks, the verdict is NON_COMPLIANT with
\* the annotation of the first of Realm, Domain, AdminServer, KdcServer whose
\* parameter is supplied and differs from the document's field; a field whose
\* parameter is not supplied is no mismatch, so that without a mismatch the
\* verdict is COMPLIANT; and the cluster gets exactly one verdict, however
\* many fields mismatch.
C13_FirstMismatchInOrder ==
    PassedEarlierChecks =>
        /\ Len(ec_evaluations) = cluster_idx - 1
        /\ IF Mismatch("Realm")
           THEN Appended(NonCompliantWith(
                    "Realm is not equal to the specified Rule parameter Realm."))
           ELSE IF Mismatch("Domain")
           THEN Appended(NonCompliantWith(
                    "Domain is not equal to the specified Rule parameter Domain."))
           ELSE IF Mismatch("AdminServer")
           THEN Appended(NonCompliantWith(
                    "AdminServer is not equal to the specified Rule parameter AdminServer."))
           ELSE IF Mismatch("KdcServer")
           THEN Appended(NonCompliantWith(
                    "KdcServer is not equal to the specified Rule parameter KdcServer."))
           ELSE Appended(ClusterVerdict("COMPLIANT"))

\* Realm matches, Domain, AdminServer and KdcServer all mismatch: the one
\* verdict of the cluster carries the Domain annotation
C13_Witness ==
    /\ PassedEarlierChecks
    /\ DOMAIN rule_parameters = ParameterNames
    /\ ~Mismatch("Realm")
    /\ Mismatch("Domain")
    /\ Mismatch("AdminServer")
    /\ Mismatch("KdcServer")
    /\ Len(ec_evaluations) = cluster_idx - 1
    /\ Last(ec_evaluations).ComplianceType = "NON_COMPLIANT"
    /\ Last(ec_evaluations).Annotation
           = "Domain is not equal to the specified Rule parameter Domain."

\* how often a resource id occurs in the final list and in the inputs
VerdictsFor(id) ==
    Cardinality({i \in 1..Len(evaluations) : evaluations[i].ComplianceResourceId = id})
TimesEnumerated(id) ==
    Cardinality({i \in 1..Len(cluster_list) : cluster_list[i].Id = id})
TimesListedBefore(id) ==
    Cardinality({i \in 1..Len(old_eval_list) : old_eval_list[i] = id})

FinalIds == {evaluations[i].ComplianceResourceId : i \in 1..Len(evaluations)}

\* no cluster id is enumerated twice, and no resource id without a new
\* verdict is listed twice in the previous-verdict pages
NoRepeatedInput ==
    /\ \A id \in ClusterIds : TimesEnumerated(id) <= 1
    /\ \A id \in StaleIds : TimesListedBefore(id) <= 1

IsLetter(c) == c \in UpperChars \cup LowerChars
IsDigit(c) == c \in DigitChars

\* a label as the algorithm wants it: 1 to 63 characters, each a letter, a
\* digit or a hyphen, the first and the last no hyphen
GoodLabel(x) ==
    /\ Len(x) >= 1
    /\ Len(x) <= 63
    /\ \A i \in 1..Len(x) : IsLetter(x[i]) \/ IsDigit(x[i]) \/ x[i] = "-"
    /\ x[1] # "-"
    /\ x[Len(x)] # "-"

\* the stated algorithm; the port segment is the one after the first colon
Accepts(value, mode) ==
    LET stripped == IF value # <<>> /\ value[Len(value)] = "."
                    THEN SubSeq(value, 1, Len(value) - 1) ELSE value
        segments == split(stripped, ":")
        host     == IF mode = "FQDN" THEN segments[1] ELSE stripped
        labels   == split(host, ".")
    IN  /\ Len(value) <= 255
        /\ (mode = "FQDN" /\ Len(segments) > 1) =>
               (segments[2] # <<>> /\ \A i \in 1..Len(segments[2]) : IsDigit(segments[2][i]))
        /\ Len(labels) >= 2
        /\ \A i \in 1..Len(labels) : GoodLabel(labels[i])

\* C12: for every string and both modes, is_valid_hostname returns a truth
\* value, true exactly when the stated algorithm accepts: at most 255
\* characters; one trailing dot stripped; in mode FQDN the port segment
\* numeric and only the host validated further; at least two labels; every
\* label 1 to 63 letters, digits or hyphens with no hyphen first or last.
C12_HostnameAlgorithm ==
    pc = "done" => response = ReturnBool(Accepts(hv_hostname, hv_type))

====
